---------------------------- MODULE Spec2Model ----------------------------
(***************************************************************************)
(* Model of the studio-go-runner response catcher                          *)
(* (assets/response_catcher/main.py): main() checks the configuration,     *)
(* initialize() connects to RabbitMQ, declares the response queue and      *)
(* then polls it forever, decrypting and printing every report it gets.    *)
(*                                                                         *)
(* Text is a sequence of character codes, binary data a sequence of bytes  *)
(* (0..255).  Time is counted in tenths of a second.                       *)
(***************************************************************************)
EXTENDS Integers, Sequences, FiniteSets, TLC

(***************************************************************************)
(* Characters of the wire text.  0..63 stand for the 64 characters of the  *)
(* base64 alphabet (the value is the sextet the character encodes).        *)
(***************************************************************************)
PAD    == 64    \* '='
COMMA  == 65    \* ','
JUNK   == 66    \* an ASCII character outside the base64 alphabet, e.g. '!'
BADUTF == 67    \* a byte that is not valid UTF-8, e.g. 0xff

(* Characters of the printed text. *)
NL     == 10    \* '\n'
SP     == 32    \* ' '
QUOTE  == 34    \* '"'
LBRACE == 123   \* '{'
RBRACE == 125   \* '}'

RECURSIVE SumSeq(_)
SumSeq(s) == IF s = <<>> THEN 0 ELSE Head(s) + SumSeq(Tail(s))

Fill(n, b) == [i \in 1..n |-> b]

Take(s, n) == SubSeq(s, 1, IF n < Len(s) THEN n ELSE Len(s))
Drop(s, n) == SubSeq(s, n + 1, Len(s))

(***************************************************************************)
(* base64.b64encode: three bytes become four sextets, the tail is padded.  *)
(***************************************************************************)
B64Encode(b) ==
    LET n     == Len(b)
        At(i) == IF i <= n THEN b[i] ELSE 0
        Char(g, r) ==
            IF r = 0 THEN At(3 * g + 1) \div 4
            ELSE IF r = 1 THEN (At(3 * g + 1) % 4) * 16 + (At(3 * g + 2) \div 16)
            ELSE IF r = 2 THEN
                IF 3 * g + 2 > n THEN PAD
                ELSE (At(3 * g + 2) % 16) * 4 + (At(3 * g + 3) \div 64)
            ELSE IF 3 * g + 3 > n THEN PAD ELSE At(3 * g + 3) % 64
    IN  [i \in 1..(4 * ((n + 2) \div 3)) |-> Char((i - 1) \div 4, (i - 1) % 4)]

(***************************************************************************)
(* base64.b64decode(s) with validate=False, i.e. binascii.a2b_base64 in    *)
(* its lenient mode.  Characters outside the alphabet are skipped.  A '='  *)
(* met when the current quad holds q >= 2 sextets counts as padding, and   *)
(* the pad that completes the quad (q + pads >= 4) ends the parse: what    *)
(* follows is ignored.  Without such a pad the data must fill whole quads, *)
(* or binascii.Error is raised.                                            *)
(***************************************************************************)
IsData(c) == c <= 63

B64Decode(s) ==
    LET DataBefore(i) == Cardinality({j \in 1..(i - 1) : IsData(s[j])})
        LastData(i)   ==
            IF \E j \in 1..(i - 1) : IsData(s[j])
            THEN CHOOSE j \in 1..(i - 1) :
                     IsData(s[j]) /\ \A k \in (j + 1)..(i - 1) : ~IsData(s[k])
            ELSE 0
        PadsBefore(i) == Cardinality({j \in (LastData(i) + 1)..(i - 1) : s[j] = PAD})
        Ends(i) ==
            /\ s[i] = PAD
            /\ DataBefore(i) % 4 >= 2
            /\ (DataBefore(i) % 4) + PadsBefore(i) + 1 >= 4
        padded == \E i \in 1..Len(s) : Ends(i)
        stop   == IF padded
                  THEN CHOOSE i \in 1..Len(s) : Ends(i) /\ \A j \in 1..(i - 1) : ~Ends(j)
                  ELSE Len(s) + 1
        sx     == SelectSeq(SubSeq(s, 1, stop - 1), IsData)
        n      == Len(sx)
        nbytes == (n \div 4) * 3 + (IF n % 4 >= 2 THEN (n % 4) - 1 ELSE 0)
        ByteAt(g, r) ==
            IF r = 0 THEN sx[4 * g + 1] * 4 + (sx[4 * g + 2] \div 16)
            ELSE IF r = 1 THEN (sx[4 * g + 2] % 16) * 16 + (sx[4 * g + 3] \div 4)
            ELSE (sx[4 * g + 3] % 4) * 64 + sx[4 * g + 4]
    IN  IF ~padded /\ n % 4 # 0 THEN [ok |-> FALSE, bytes |-> <<>>]
        ELSE [ok |-> TRUE,
              bytes |-> [j \in 1..nbytes |-> ByteAt((j - 1) \div 3, (j - 1) % 3)]]

(***************************************************************************)
(* body.decode("utf-8").split(","): the parts between the commas.          *)
(***************************************************************************)
Utf8Ok(body) == \A i \in 1..Len(body) : body[i] # BADUTF

RECURSIVE SplitComma(_)
SplitComma(s) ==
    IF \A i \in 1..Len(s) : s[i] # COMMA THEN << s >>
    ELSE LET k == CHOOSE i \in 1..Len(s) :
                     s[i] = COMMA /\ \A j \in 1..(i - 1) : s[j] # COMMA
         IN  << SubSeq(s, 1, k - 1) >> \o SplitComma(Drop(s, k))

(***************************************************************************)
(* The asymmetric layer: PKCS1_OAEP.new(prvt_key, SHA256).  A ciphertext   *)
(* is as long as the key's modulus.  Encryption is modelled as perfect:    *)
(* decrypt recovers a key exactly from the ciphertexts that OAEPEncrypt    *)
(* produced for the same key pair.                                         *)
(***************************************************************************)
ModulusBytes == 4          \* size of the RSA modulus of the configured key

OwnPair   == 1             \* the key pair whose private half the catcher holds
OtherPair == 2             \* somebody else's key pair

KEY_SIZE   == 32           \* nacl.secret.SecretBox.KEY_SIZE
NONCE_SIZE == 24           \* nacl.secret.SecretBox.NONCE_SIZE
MACBYTES   == 16           \* nacl.secret.SecretBox.MACBYTES

K1     == Fill(KEY_SIZE, 17)
K2     == Fill(KEY_SIZE, 201)
KShort == Fill(16, 17)     \* a wrapped secret that is no SecretBox key
SymKeys == {K1, K2, KShort}

N1 == Fill(NONCE_SIZE, 5)
N2 == Fill(NONCE_SIZE, 250)

OAEPEncrypt(pair, k) ==
    [i \in 1..ModulusBytes |->
        IF i = 1 THEN pair
        ELSE IF i = 2 THEN Len(k)
        ELSE IF i = 3 THEN k[1]
        ELSE (pair + Len(k) + k[1] + i) % 256]

(***************************************************************************)
(* cipher.decrypt(symKeyBytes): ValueError for a ciphertext of the wrong   *)
(* length, TypeError when the configured key has no private half,          *)
(* ValueError when the OAEP check fails.                                   *)
(***************************************************************************)
CipherDecrypt(keyKind, ct) ==
    IF Len(ct) # ModulusBytes THEN [res |-> "ValueError", key |-> <<>>]
    ELSE IF keyKind # "private" THEN [res |-> "TypeError", key |-> <<>>]
    ELSE IF \E k \in SymKeys : OAEPEncrypt(OwnPair, k) = ct
         THEN [res |-> "ok",
               key |-> CHOOSE k \in SymKeys : OAEPEncrypt(OwnPair, k) = ct]
         ELSE [res |-> "ValueError", key |-> <<>>]

(***************************************************************************)
(* The symmetric layer: nacl.secret.SecretBox.  encrypt gives the          *)
(* authenticator (MACBYTES) followed by the enciphered text.               *)
(***************************************************************************)
KeyStream(k, n, i) == (k[((i - 1) % Len(k)) + 1] + n[((i - 1) % Len(n)) + 1] + i) % 256

Mac(k, n, c) ==
    [j \in 1..MACBYTES |->
        (SumSeq(c) + Len(c) + k[((j - 1) % Len(k)) + 1] + 3 * n[((j - 1) % Len(n)) + 1] + j) % 256]

BoxEncrypt(k, n, p) ==
    LET c == [i \in 1..Len(p) |-> (p[i] + KeyStream(k, n, i)) % 256]
    IN  Mac(k, n, c) \o c

(* box.decrypt(ciphertext, nonce): ValueError for a nonce of the wrong     *)
(* size, CryptoError when the authenticator does not verify.               *)
BoxDecrypt(k, ct, n) ==
    IF Len(n) # NONCE_SIZE THEN [res |-> "ValueError", plain |-> <<>>]
    ELSE IF Len(ct) < MACBYTES THEN [res |-> "CryptoError", plain |-> <<>>]
    ELSE LET c == Drop(ct, MACBYTES)
         IN  IF Take(ct, MACBYTES) # Mac(k, n, c)
             THEN [res |-> "CryptoError", plain |-> <<>>]
             ELSE [res |-> "ok",
                   plain |-> [i \in 1..Len(c) |-> (c[i] - KeyStream(k, n, i)) % 256]]

(***************************************************************************)
(* The report text.  A plaintext is a sequence of field statements, one    *)
(* byte each: a field of the Report schema, a field the schema does not    *)
(* know, or text that is no field statement at all.                        *)
(***************************************************************************)
KnownFields  == {101, 102, 103}
UnknownField == 117
Garbage      == 63

(* text_format.Parse(unencrypted, report): ParseError for text outside the *)
(* grammar, for a field the schema does not have (allow_unknown_field is   *)
(* off) and for a singular field given twice.                              *)
ParseOk(p) ==
    /\ \A i \in 1..Len(p) : p[i] \in KnownFields
    /\ \A i, j \in 1..Len(p) : p[i] = p[j] => i = j

(* MessageToJson(report): "{}" for the empty report, otherwise "{", one    *)
(* indented line per field (all but the last ending in a comma) and "}",   *)
(* the lines separated by newlines.                                        *)
MessageToJson(report) ==
    IF report = <<>> THEN << LBRACE, RBRACE >>
    ELSE LET FieldLine(i) ==
                 << NL, SP, SP, QUOTE, report[i], QUOTE >>
                 \o (IF i < Len(report) THEN << COMMA >> ELSE <<>>)
             Lines[i \in 0..Len(report)] ==
                 IF i = 0 THEN <<>> ELSE Lines[i - 1] \o FieldLine(i)
         IN  << LBRACE >> \o Lines[Len(report)] \o << NL, RBRACE >>

(* str.splitlines() *)
RECURSIVE SplitLines(_)
SplitLines(s) ==
    IF s = <<>> THEN <<>>
    ELSE IF \A i \in 1..Len(s) : s[i] # NL THEN << s >>
    ELSE LET k == CHOOSE i \in 1..Len(s) :
                     s[i] = NL /\ \A j \in 1..(i - 1) : s[j] # NL
         IN  << SubSeq(s, 1, k - 1) >> \o SplitLines(Drop(s, k))

(* ' '.join(lines) *)
RECURSIVE JoinSpace(_)
JoinSpace(lines) ==
    IF lines = <<>> THEN <<>>
    ELSE IF Len(lines) = 1 THEN lines[1]
    ELSE lines[1] \o << SP >> \o JoinSpace(Tail(lines))

(* ' '.join(MessageToJson(report).splitlines()) *)
Render(report) == JoinSpace(SplitLines(MessageToJson(report)))

(* print(text, file=sink) *)
PrintTo(sink, text) == sink \o text \o << NL >>

CountLines(sink) == Cardinality({i \in 1..Len(sink) : sink[i] = NL})

(***************************************************************************)
(* The messages the producers put on the queue.                            *)
(***************************************************************************)
Envelope(wrapped, boxed) == B64Encode(wrapped) \o << COMMA >> \o B64Encode(boxed)

P1       == << 101 >>
P2       == << 102, 103 >>
PUnknown == << 101, UnknownField >>
PGarbage == << Garbage >>

Sealed(k, n, p) == n \o BoxEncrypt(k, n, p)

MsgValid1      == Envelope(OAEPEncrypt(OwnPair, K1), Sealed(K1, N1, P1))
MsgValid2      == Envelope(OAEPEncrypt(OwnPair, K2), Sealed(K2, N2, P2))
MsgWrongSymKey == Envelope(OAEPEncrypt(OwnPair, K1), Sealed(K2, N1, P1))
MsgOtherPair   == Envelope(OAEPEncrypt(OtherPair, K1), Sealed(K1, N1, P1))
MsgShortKey    == Envelope(OAEPEncrypt(OwnPair, KShort), Sealed(K1, N1, P1))
MsgNoComma     == B64Encode(OAEPEncrypt(OwnPair, K1))
MsgExtraComma  == MsgValid1 \o << COMMA >> \o B64Encode(<< 1, 2, 3 >>)
MsgBadPadding  ==
    LET seg == B64Encode(Sealed(K1, N1, P1))
    IN  B64Encode(OAEPEncrypt(OwnPair, K1)) \o << COMMA >> \o Take(seg, Len(seg) - 1)
MsgJunkChars   ==
    B64Encode(OAEPEncrypt(OwnPair, K1)) \o << COMMA, JUNK >> \o B64Encode(Sealed(K1, N1, P1))
MsgShortBody   == Envelope(OAEPEncrypt(OwnPair, K1), << 1, 2, 3 >>)
MsgAAAABBBB    == << 0, 0, 0, 0, COMMA, 1, 1, 1, 1 >>
MsgTampered    ==
    LET b == Sealed(K1, N1, P1)
    IN  Envelope(OAEPEncrypt(OwnPair, K1),
                 [b EXCEPT ![Len(b)] = (b[Len(b)] + 1) % 256])
MsgUnknown     == Envelope(OAEPEncrypt(OwnPair, K1), Sealed(K1, N1, PUnknown))
MsgGarbage     == Envelope(OAEPEncrypt(OwnPair, K1), Sealed(K1, N1, PGarbage))
MsgBadUtf      == << BADUTF >> \o MsgValid1

Bodies ==
    { MsgValid1, MsgValid2, MsgWrongSymKey, MsgOtherPair, MsgShortKey, MsgNoComma,
      MsgExtraComma, MsgBadPadding, MsgJunkChars, MsgShortBody, MsgAAAABBBB,
      MsgTampered, MsgUnknown, MsgGarbage, MsgBadUtf }

(***************************************************************************)
(* Lines 58-78 of initialize: what the catcher does with one message body. *)
(*   [kind |-> "emit", line]            the report line is printed         *)
(*   [kind |-> "return", code, stage]   the loop returns code              *)
(*   [kind |-> "raise", exc, stage]     an exception leaves initialize     *)
(***************************************************************************)
Emit(line)          == [kind |-> "emit", line |-> line, code |-> 0, exc |-> "none", stage |-> "none"]
Return(code, stage) == [kind |-> "return", line |-> <<>>, code |-> code, exc |-> "none", stage |-> stage]
Raise(exc, stage)   == [kind |-> "raise", line |-> <<>>, code |-> 1, exc |-> exc, stage |-> stage]

Decode(unencrypted) ==
    IF ~ParseOk(unencrypted) THEN Raise("ParseError", "decode")
    ELSE Emit(Render(unencrypted))

(* The body cut at the authenticator's length instead of the nonce's. *)
UnsealCutAtMac(msgKey, msgBytes) ==
    IF Len(msgKey) # KEY_SIZE THEN Raise("ValueError", "decrypt")
    ELSE LET d == BoxDecrypt(msgKey, Drop(msgBytes, MACBYTES), Take(msgBytes, MACBYTES))
         IN  IF d.res # "ok" THEN Raise(d.res, "decrypt")
             ELSE Decode(d.plain)

Unseal(msgKey, msgBytes) ==
    IF Len(msgKey) # KEY_SIZE THEN Raise("ValueError", "decrypt")
    ELSE LET d == BoxDecrypt(msgKey, Drop(msgBytes, NONCE_SIZE), Take(msgBytes, NONCE_SIZE))
         IN  IF d.res # "ok" THEN Raise(d.res, "decrypt")
             ELSE Decode(d.plain)

(* The two return codes of the unwrap handlers exchanged. *)
UnwrapCodesSwapped(keyKind, symKeyBytes, msgBytes) ==
    LET u == CipherDecrypt(keyKind, symKeyBytes)
    IN  IF u.res = "ValueError" THEN Return(-1, "unwrap")
        ELSE IF u.res = "TypeError" THEN Return(0, "unwrap")
        ELSE Unseal(u.key, msgBytes)

Unwrap(keyKind, symKeyBytes, msgBytes) ==
    LET u == CipherDecrypt(keyKind, symKeyBytes)
    IN  IF u.res = "ValueError" THEN Return(0, "unwrap")
        ELSE IF u.res = "TypeError" THEN Return(-1, "unwrap")
        ELSE Unseal(u.key, msgBytes)

(***************************************************************************)
(* Lines 58-64: what the local msgKey is bound to once a message has gone  *)
(* through the loop body.  It is assigned when cipher.decrypt returns and  *)
(* nothing in the loop unbinds it; a message that fails before that leaves *)
(* the binding of the message before.                                      *)
(***************************************************************************)
KeyAfterMessage(keyKind, body, old) ==
    IF ~Utf8Ok(body) THEN old
    ELSE LET parts == SplitComma(body)
             sym   == B64Decode(parts[1])
         IN  IF ~sym.ok \/ Len(parts) < 2 THEN old
             ELSE IF ~B64Decode(parts[2]).ok THEN old
             ELSE LET u == CipherDecrypt(keyKind, sym.bytes)
                  IN  IF u.res = "ok" THEN u.key ELSE old

HandleBody(keyKind, body) ==
    IF ~Utf8Ok(body) THEN Raise("UnicodeDecodeError", "split")
    ELSE LET parts == SplitComma(body)
             sym   == B64Decode(parts[1])
         IN  IF ~sym.ok THEN Raise("binascii.Error", "split")
             ELSE IF Len(parts) < 2 THEN Raise("IndexError", "split")
             ELSE LET msg == B64Decode(parts[2])
                  IN  IF ~msg.ok THEN Raise("binascii.Error", "split")
                      ELSE Unwrap(keyKind, sym.bytes, msg.bytes)

(***************************************************************************)
(* Diagnostics, all printed with a bare print(), i.e. to standard output.  *)
(***************************************************************************)
QueueEmptyText   == << 81 >>        \* 'Queue empty'
RmqErrorText     == << 82 >>        \* 'RMQ error, ...'
RmqFileErrorText == << 70 >>        \* 'RMQ file error, ...'
SymKeyErrorText  == << 75 >>        \* 'crypto sym key error, ...'
VersionText      == << 48 >>        \* '0.0'
ConfigErrorText  == << 69 >>        \* what main() and argparse write to stderr

(***************************************************************************)
(* Time, in tenths of a second.                                            *)
(***************************************************************************)
HourTicks     == 36000     \* divmod(seconds_elapsed, 3600)
MinuteTicks   == 600       \* divmod(rest, 60)
NoticeMinutes == 2         \* minutes > 2
SleepTicks    == 3         \* time.sleep(0.3)

(* How long a basic_get can take before it answers. *)
PollDurations == {0, 1797, 36000}

MaxMsgs  == 2              \* messages published during a run
MaxPolls == 3              \* basic_get calls during a run

(***************************************************************************)
(* The command lines the catcher is started with.                          *)
(***************************************************************************)
GoodConfig == [version |-> FALSE, args |-> "ok", keyFile |-> "private",
               output |-> "file", broker |-> "reachable"]

Configs ==
    { GoodConfig,
      [GoodConfig EXCEPT !.output = "none"],
      [GoodConfig EXCEPT !.output = "dash"],
      [GoodConfig EXCEPT !.keyFile = "public"],
      [GoodConfig EXCEPT !.version = TRUE],
      [GoodConfig EXCEPT !.version = TRUE, !.keyFile = "missing"],
      [GoodConfig EXCEPT !.args = "missing"],
      [GoodConfig EXCEPT !.args = "emptyurl"],
      [GoodConfig EXCEPT !.keyFile = "missing"],
      [GoodConfig EXCEPT !.keyFile = "garbage"],
      [GoodConfig EXCEPT !.output = "unopenable"],
      [GoodConfig EXCEPT !.broker = "unreachable"],
      [GoodConfig EXCEPT !.broker = "badurl"] }

VARIABLES
    cfg,          \* the command line and what it names
    pc,           \* where the process is
    now,          \* time.time()
    last_empty,   \* initialize's last_empty
    queue,        \* the broker's queue: ids of the messages published and not yet delivered
    chan,         \* the state of the channel to the broker
    cur,          \* the message basic_get returned (method_frame, body)
    outfile,      \* the contents of the --output file
    stdout,       \* what was written to standard output
    stderr,       \* what was written to standard error
    exitCode,     \* the exit status, once exited
    raised,       \* the exception that ended the process, if one did
    declared,     \* queue_declare calls made
    msgKey,       \* initialize's msgKey: the symmetric key last unwrapped
    nextId,       \* messages published so far
    fetched,      \* ids of the messages basic_get returned, in order
    lastFetch,    \* ghost: the time at which basic_get last returned a message
    emitted,      \* ids of the messages whose report line was printed
    polls,        \* basic_get calls made
    lastPoll,     \* what the latest basic_get found
    lastStep,     \* the latest step of the process
    notices,      \* the times at which 'Queue empty' was printed
    failure       \* the stage that ended the loop, if a message did

vars == << cfg, pc, now, last_empty, queue, chan, cur, outfile, stdout, stderr,
           exitCode, raised, declared, msgKey, nextId, fetched, lastFetch, emitted,
           polls, lastPoll, lastStep, notices, failure >>

NoMsg == [id |-> 0, body |-> <<>>]

LoopPcs == {"fetch", "process", "idle", "sleep"}

ToStdout == cfg.output \in {"none", "dash"}

(* The sink the reports go to: print(..., file=output). *)
Sink == IF ToStdout THEN stdout ELSE outfile

Init ==
    /\ cfg \in Configs
    /\ pc = "main"
    /\ now = 0
    /\ last_empty = 0
    /\ queue = <<>>
    /\ chan = "none"
    /\ cur = NoMsg
    /\ outfile = <<>>
    /\ stdout = <<>>
    /\ stderr = <<>>
    /\ exitCode = 0
    /\ raised = "none"
    /\ declared = 0
    /\ msgKey = <<>>
    /\ nextId = 0
    /\ fetched = <<>>
    /\ lastFetch = 0
    /\ emitted = <<>>
    /\ polls = 0
    /\ lastPoll = "none"
    /\ lastStep = "none"
    /\ notices = <<>>
    /\ failure = "none"

(* The process ends: return code from main(), or an uncaught exception.    *)
Exit(code, exc, stage) ==
    /\ pc' = "exited"
    /\ exitCode' = code
    /\ raised' = exc
    /\ failure' = stage

Running ==
    /\ UNCHANGED << exitCode, raised, failure >>

(***************************************************************************)
(* main(), lines 110-147.                                                  *)
(***************************************************************************)
(* A main() that checks nothing and goes straight to initialize. *)
MainOutcomeUnchecked(c) ==
    [code |-> 0, exc |-> "initialize", err |-> FALSE, out |-> <<>>]

MainOutcome(c) ==
    IF c.args = "missing" THEN [code |-> 2, exc |-> "SystemExit", err |-> TRUE, out |-> <<>>]
    ELSE IF c.version THEN [code |-> 0, exc |-> "none", err |-> FALSE, out |-> VersionText]
    ELSE IF c.keyFile = "missing" THEN [code |-> -1, exc |-> "none", err |-> TRUE, out |-> <<>>]
    ELSE IF c.args = "emptyurl" THEN [code |-> -1, exc |-> "none", err |-> TRUE, out |-> <<>>]
    ELSE IF c.output = "unopenable" THEN [code |-> -1, exc |-> "none", err |-> TRUE, out |-> <<>>]
    ELSE IF c.keyFile = "garbage" THEN [code |-> 1, exc |-> "ValueError", err |-> TRUE, out |-> <<>>]
    ELSE [code |-> 0, exc |-> "initialize", err |-> FALSE, out |-> <<>>]

Main ==
    /\ pc = "main"
    /\ LET m == MainOutcome(cfg)
       IN  /\ stderr' = IF m.err THEN PrintTo(stderr, ConfigErrorText) ELSE stderr
           /\ stdout' = IF m.out # <<>> THEN PrintTo(stdout, m.out) ELSE stdout
           /\ IF m.exc = "initialize"
              THEN pc' = "connect" /\ Running
              ELSE Exit(m.code, m.exc, "config")
    /\ lastStep' = "main"
    /\ UNCHANGED << cfg, now, last_empty, queue, chan, cur, outfile, declared,
                    msgKey, nextId, fetched, lastFetch, emitted, polls,
                    lastPoll, notices >>

(***************************************************************************)
(* initialize(), lines 36-43: connect, open a channel, declare the queue,  *)
(* start the idle timer.                                                   *)
(***************************************************************************)
(* A connection step that carries on whatever the broker or the URL. *)
ConnectAlwaysSucceeds(broker) == "none"

(* Line 36: pika.URLParameters raises on a malformed URL, and              *)
(* pika.BlockingConnection when the broker cannot be reached; initialize   *)
(* handles neither.                                                        *)
ConnectOutcome(broker) ==
    IF broker = "badurl" THEN "ValueError"
    ELSE IF broker = "unreachable" THEN "AMQPConnectionError"
    ELSE "none"

Connect ==
    /\ pc = "connect"
    /\ IF ConnectOutcome(cfg.broker) # "none"
       THEN /\ Exit(1, ConnectOutcome(cfg.broker), "connect")
            /\ UNCHANGED << chan, declared, last_empty >>
       ELSE /\ chan' = "open"
            /\ declared' = declared + 1
            /\ last_empty' = now
            /\ pc' = "fetch"
            /\ Running
    /\ lastStep' = "connect"
    /\ UNCHANGED << cfg, now, queue, cur, msgKey, outfile, stdout, stderr, nextId,
                    fetched, lastFetch, emitted, polls, lastPoll, notices >>

(***************************************************************************)
(* The broker's side of channel.basic_get(rmq_queue, auto_ack=True): the   *)
(* head of the queue is delivered and, being acknowledged at once, leaves  *)
(* the queue.                                                              *)
(***************************************************************************)
(* A get that leaves the message on the queue. *)
BasicGetNoAck(q) == [msg |-> Head(q), rest |-> q]

BasicGet(q) == [msg |-> Head(q), rest |-> Tail(q)]

(* A loop that takes the idle branch whatever basic_get returned. *)
BranchAlwaysIdle(gotFrame) == "idle"

(* Lines 53 and 79: if method_frame: ... else: ...                         *)
BranchAfterGet(gotFrame) == IF gotFrame THEN "process" ELSE "idle"

ChannelClosedIsError == 0 - 1

(* A broker that never hands a message over. *)
NeverDeliverable(q) == FALSE

(* basic_get returns a frame exactly when the queue holds a message. *)
Deliverable(q) == q # <<>>

(* The return codes of the two handlers around basic_get. *)
ChannelClosedCode == 0
FetchValueErrorCode == 0

(***************************************************************************)
(* Line 46 and its handlers, up to the test of method_frame on line 53.    *)
(* The call finds the channel closed by the broker (ChannelClosedByBroker),*)
(* the socket gone (ValueError), the connection lost (an exception the     *)
(* loop does not handle), or it answers after some time with the head of   *)
(* the queue or with nothing.                                              *)
(***************************************************************************)
FetchFault ==
    /\ pc = "fetch"
    /\ polls' = polls + 1
    /\ \/ /\ chan' = "closed"
          /\ stdout' = PrintTo(stdout, RmqErrorText)
          /\ Exit(ChannelClosedCode, "none", "closed")
          /\ lastPoll' = "closed"
       \/ /\ chan' = "fd_invalid"
          /\ stdout' = PrintTo(stdout, RmqFileErrorText)
          /\ Exit(FetchValueErrorCode, "none", "fetch_value_error")
          /\ lastPoll' = "error"
       \/ /\ chan' = "lost"
          /\ Exit(1, "StreamLostError", "fetch")
          /\ lastPoll' = "error"
          /\ stdout' = stdout
    /\ lastStep' = "fetch"
    /\ UNCHANGED << cfg, now, last_empty, queue, cur, outfile, stderr, declared,
                    msgKey, nextId, fetched, lastFetch, emitted, notices >>

FetchMessage ==
    /\ pc = "fetch"
    /\ Deliverable(queue)
    /\ polls' = polls + 1
    /\ \E d \in PollDurations : now' = now + d
    /\ \E b \in Bodies : cur' = [id |-> BasicGet(queue).msg, body |-> b]
    /\ queue' = BasicGet(queue).rest
    /\ fetched' = Append(fetched, BasicGet(queue).msg)
    /\ lastFetch' = now'
    /\ pc' = BranchAfterGet(TRUE)
    /\ lastPoll' = "msg"
    /\ lastStep' = "fetch"
    /\ Running
    /\ UNCHANGED << cfg, last_empty, chan, outfile, stdout, stderr, declared,
                    msgKey, nextId, emitted, notices >>

FetchEmpty ==
    /\ pc = "fetch"
    /\ ~Deliverable(queue)
    /\ polls' = polls + 1
    /\ \E d \in PollDurations : now' = now + d
    /\ pc' = BranchAfterGet(FALSE)
    /\ lastPoll' = "empty"
    /\ lastStep' = "fetch"
    /\ Running
    /\ UNCHANGED << cfg, last_empty, queue, chan, cur, outfile, stdout, stderr,
                    declared, msgKey, nextId, fetched, lastFetch, emitted,
                    notices >>

(* A run makes at most MaxPolls calls of basic_get. *)
Fetch ==
    /\ polls < MaxPolls
    /\ (FetchFault \/ FetchMessage \/ FetchEmpty)

(* A loop that sleeps after every iteration. *)
AfterEmitSleeps == "sleep"

(* Where the loop goes after it printed a report: straight to basic_get.   *)
AfterEmit == "fetch"

(* A loop whose idle timer keeps running across a message. *)
TimerKeptAcrossMessage(t, old) == old

(* Line 54: last_empty = time.time() as soon as a message was returned.    *)
TimerAfterMessage(t, old) == t

(***************************************************************************)
(* Lines 54-78: the branch taken when basic_get returned a message.        *)
(***************************************************************************)
Process ==
    /\ pc = "process"
    /\ last_empty' = TimerAfterMessage(now, last_empty)
    /\ msgKey' = KeyAfterMessage(cfg.keyFile, cur.body, msgKey)
    /\ LET r == HandleBody(cfg.keyFile, cur.body)
       IN  CASE r.kind = "emit" ->
                  /\ stdout' = IF ToStdout THEN PrintTo(stdout, r.line) ELSE stdout
                  /\ outfile' = IF ToStdout THEN outfile ELSE PrintTo(outfile, r.line)
                  /\ emitted' = Append(emitted, cur.id)
                  /\ cur' = NoMsg
                  /\ pc' = AfterEmit
                  /\ Running
             [] r.kind = "return" ->
                  /\ stdout' = PrintTo(stdout, SymKeyErrorText)
                  /\ Exit(r.code, "none", r.stage)
                  /\ UNCHANGED << outfile, emitted, cur >>
             [] r.kind = "raise" ->
                  /\ Exit(r.code, r.exc, r.stage)
                  /\ UNCHANGED << stdout, outfile, emitted, cur >>
    /\ lastStep' = "process"
    /\ UNCHANGED << cfg, now, queue, chan, stderr, declared, nextId, fetched,
                    lastFetch,
                    polls, lastPoll, notices >>

(* A notice as soon as two whole minutes have passed. *)
ShouldNoticeFromTwoMinutes(elapsed) ==
    LET hours   == elapsed \div HourTicks
        rest    == elapsed % HourTicks
        minutes == rest \div MinuteTicks
    IN  hours > 0 \/ minutes >= NoticeMinutes

(* A notice on every empty poll. *)
ShouldNoticeEveryPoll(elapsed) == elapsed >= 0

(* Lines 80-84: is a 'Queue empty' notice due after seconds_elapsed?       *)
ShouldNotice(elapsed) ==
    LET hours   == elapsed \div HourTicks
        rest    == elapsed % HourTicks
        minutes == rest \div MinuteTicks
    IN  hours > 0 \/ minutes > NoticeMinutes

(* A notice written where the reports go. *)
NoticeToOutput == "output"

(* Line 85: print('Queue empty') names no file: it goes to sys.stdout.     *)
NoticeStream == "stdout"

(***************************************************************************)
(* Lines 80-86: the branch taken when basic_get returned nothing.          *)
(***************************************************************************)
Idle ==
    /\ pc = "idle"
    /\ IF ShouldNotice(now - last_empty)
       THEN /\ last_empty' = now
            /\ IF NoticeStream = "stdout" \/ ToStdout
               THEN /\ stdout' = PrintTo(stdout, QueueEmptyText)
                    /\ outfile' = outfile
               ELSE /\ outfile' = PrintTo(outfile, QueueEmptyText)
                    /\ stdout' = stdout
            /\ notices' = Append(notices, now)
       ELSE UNCHANGED << last_empty, stdout, outfile, notices >>
    /\ pc' = "sleep"
    /\ lastStep' = "idle"
    /\ Running
    /\ UNCHANGED << cfg, now, queue, chan, cur, stderr, declared, msgKey,
                    nextId, fetched, lastFetch, emitted, polls, lastPoll >>

(* Line 87: time.sleep(0.3), then back to the top of the loop. *)
Sleep ==
    /\ pc = "sleep"
    /\ now' = now + SleepTicks
    /\ pc' = "fetch"
    /\ lastStep' = "sleep"
    /\ Running
    /\ UNCHANGED << cfg, last_empty, queue, chan, cur, outfile, stdout, stderr,
                    declared, msgKey, nextId, fetched, lastFetch, emitted,
                    polls, lastPoll, notices >>

(***************************************************************************)
(* The environment: producers publish and the operator interrupts the      *)
(* process.  The catcher sees the queue only in basic_get, so what the     *)
(* producers did since the previous call is taken to happen while the loop *)
(* is about to call it.  Nothing reads a message's body before it is       *)
(* delivered, so the queue keeps the ids and the body a producer sent is   *)
(* drawn from Bodies when basic_get hands it over.                         *)
(***************************************************************************)
Publish ==
    /\ chan = "open"
    /\ pc = "fetch"
    /\ nextId < MaxMsgs
    /\ nextId' = nextId + 1
    /\ queue' = Append(queue, nextId + 1)
    /\ UNCHANGED << cfg, pc, now, last_empty, chan, cur, outfile, stdout, stderr,
                    exitCode, raised, declared, msgKey, fetched, lastFetch,
                    emitted, polls, lastPoll, lastStep, notices, failure >>

Cancel ==
    /\ pc \in LoopPcs
    /\ Exit(1, "KeyboardInterrupt", "cancel")
    /\ lastStep' = "cancel"
    /\ UNCHANGED << cfg, now, last_empty, queue, chan, cur, outfile, stdout,
                    stderr, declared, msgKey, nextId, fetched, lastFetch,
                    emitted, polls, lastPoll, notices >>

Next ==
    \/ Main
    \/ Connect
    \/ Fetch
    \/ Process
    \/ Idle
    \/ Sleep
    \/ Publish
    \/ Cancel

Spec == Init /\ [][Next]_vars

(***************************************************************************)
(* The loop with a broker that stays up and an operator who does not       *)
(* interrupt.  Producers publish when they like.  To keep the clock        *)
(* bounded, empty polls are made only while polls is below MaxPolls; a     *)
(* poll that finds a message is always made.                               *)
(*                                                                         *)
(* The loop is one thread: the statement it has reached is executed and    *)
(* returns (basic_get answers, sleep ends).  Every step of the process     *)
(* moves pc and no step of the producers does, so this is weak fairness of *)
(* the steps that move pc; LoopCanStep is the condition under which one of *)
(* the process's steps is enabled.                                         *)
(***************************************************************************)
LiveInit == Init /\ cfg \in {GoodConfig, [GoodConfig EXCEPT !.output = "none"]}

FetchEmptyBounded == polls < MaxPolls /\ FetchEmpty

ProcessStepLive ==
    \/ Main
    \/ Connect
    \/ FetchMessage
    \/ FetchEmptyBounded
    \/ Process
    \/ Idle
    \/ Sleep

LiveNext ==
    \/ ProcessStepLive
    \/ Publish

LoopCanStep ==
    \/ pc \in {"main", "connect", "process", "idle", "sleep"}
    \/ pc = "fetch" /\ (Deliverable(queue) \/ polls < MaxPolls)

LoopAdvances ==
    /\ LoopCanStep
    /\ pc' \in ({"main", "connect", "exited"} \cup LoopPcs) \ {pc}

LiveSpec == LiveInit /\ [][LiveNext]_vars /\ WF_pc(LoopAdvances)

(***************************************************************************)
(* Vocabulary of the properties.                                           *)
(***************************************************************************)
Stages == {"split", "unwrap", "decrypt", "decode"}

(* The step just taken was the processing of the fetched message. *)
ProcessStep == pc = "process" /\ lastStep' = "process"
FetchStep   == pc = "fetch" /\ lastStep' = "fetch"
IdleStep    == pc = "idle" /\ lastStep' = "idle"
SleepStep   == pc = "sleep" /\ lastStep' = "sleep"

NoDuplicates(s) == \A i, j \in 1..Len(s) : s[i] = s[j] => i = j

Range(s) == {s[i] : i \in 1..Len(s)}

(* The idle threshold: "minutes > 2" is first true after three minutes. *)
IdleThreshold == (NoticeMinutes + 1) * MinuteTicks

(* The envelopes a producer builds from a key, a nonce and a report. *)
ValidTriples ==
    { [k |-> K1, n |-> N1, p |-> P1, body |-> MsgValid1],
      [k |-> K2, n |-> N2, p |-> P2, body |-> MsgValid2] }

(***************************************************************************)
(* C1: if a processing stage fails on a fetched message (split or base64   *)
(* decode, key unwrap, symmetric decrypt, report decode), the loop neither *)
(* returns nor raises: it goes on to the next poll.                        *)
(***************************************************************************)
C1_StageFailureSkipsMessage ==
    [][(ProcessStep /\ cfg.keyFile = "private"
           /\ HandleBody(cfg.keyFile, cur.body).kind # "emit")
          => (pc' = "fetch" /\ raised' = "none")]_vars

(***************************************************************************)
(* C2: a message is acknowledged when it is fetched: it leaves the queue   *)
(* and is never delivered again, so it yields at most one output line, and *)
(* a message whose processing failed or was interrupted is lost: it is     *)
(* neither requeued nor emitted.                                           *)
(***************************************************************************)
C2_AckOnFetch ==
    /\ NoDuplicates(fetched)
    /\ NoDuplicates(emitted)
    /\ Range(fetched) \cap Range(queue) = {}
    /\ Range(emitted) \subseteq Range(fetched)
    /\ CountLines(outfile) <= Len(fetched)
    /\ (pc = "exited" /\ cur # NoMsg) =>
           (cur.id \notin Range(emitted) /\ cur.id \notin Range(queue))

C2_Witness ==
    /\ pc = "exited"
    /\ failure \in Stages \cup {"cancel"}
    /\ Len(fetched) = 2
    /\ Len(emitted) = 1
    /\ cur.id = fetched[2]

(***************************************************************************)
(* C3: a message with a well-formed envelope whose ciphertext was sealed   *)
(* under a different key, with another message waiting behind it, is       *)
(* skipped without a report line and the loop keeps running.               *)
(***************************************************************************)
C3_WrongKeyMessageSkipped ==
    [][(ProcessStep /\ cur.body = MsgWrongSymKey /\ queue # <<>>)
          => (pc' = "fetch" /\ emitted' = emitted /\ outfile' = outfile)]_vars

(***************************************************************************)
(* C4: a poll that finds the channel closed by the broker stops the loop   *)
(* with return code 0; no message is fetched and no report line is         *)
(* emitted by that poll or after it.                                       *)
(***************************************************************************)
C4_ChannelClosedStopsCleanly ==
    [][/\ (FetchStep /\ chan' = "closed") =>
             /\ pc' = "exited"
             /\ exitCode' = 0
             /\ raised' = "none"
             /\ fetched' = fetched
             /\ emitted' = emitted
             /\ outfile' = outfile
       /\ (pc = "exited") =>
             (pc' = "exited" /\ fetched' = fetched /\ emitted' = emitted
                 /\ outfile' = outfile /\ stdout' = stdout)]_vars

C4_Witness ==
    /\ pc = "exited"
    /\ chan = "closed"
    /\ exitCode = 0
    /\ Len(emitted) >= 1
    /\ queue # <<>>

(***************************************************************************)
(* C5: the loop returns 0 in exactly two situations, the broker closed the *)
(* channel or a library raised a value error (in basic_get or in the key   *)
(* unwrap), and a single bad message never stops it.                       *)
(***************************************************************************)
C5_OnlyTwoCleanStops ==
    (pc = "exited" /\ failure \notin {"config", "connect", "cancel"}) =>
        /\ (exitCode = 0 /\ raised = "none") =>
               failure \in {"closed", "fetch_value_error", "unwrap"}
        /\ lastStep # "process"

(***************************************************************************)
(* C6: while the queue stays empty, a 'Queue empty' notice is printed on   *)
(* an empty poll exactly when a full idle threshold has passed since the   *)
(* timer was last reset, printing it resets the timer, and so two notices  *)
(* are never less than a threshold apart: one notice per threshold, not    *)
(* one per poll.                                                           *)
(***************************************************************************)
C6_OneNoticePerThreshold ==
    /\ [](\A i \in 1..Len(notices) :
              /\ notices[i] >= IdleThreshold
              /\ i > 1 => notices[i] - notices[i - 1] >= IdleThreshold)
    /\ [][IdleStep =>
            IF now - last_empty >= IdleThreshold
            THEN /\ notices' = Append(notices, now)
                 /\ last_empty' = now
                 /\ stdout' = PrintTo(stdout, QueueEmptyText)
            ELSE /\ notices' = notices
                 /\ last_empty' = last_empty
                 /\ stdout' = stdout]_vars

C6_Witness ==
    /\ Len(notices) = 2
    /\ notices[2] - notices[1] = IdleThreshold
    /\ polls = 3
    /\ lastPoll = "empty"
    /\ lastStep = "idle"
    /\ last_empty = notices[2]
    /\ now > last_empty

(***************************************************************************)
(* C7: whichever sink is chosen, a file or standard output, the sink holds *)
(* one line per successfully decoded message and nothing else.             *)
(***************************************************************************)
C7_SinkHoldsOnlyReports ==
    (pc \in LoopPcs) => CountLines(Sink) = Len(emitted)

(***************************************************************************)
(* C8: an envelope b64(wrap(K)) , b64(N followed by encrypt(K, N, P))      *)
(* wrapped for the catcher's key is split at the nonce boundary, K and P   *)
(* are recovered, and exactly one line, the single-line rendering of P,    *)
(* is emitted.                                                             *)
(***************************************************************************)
C8_ValidEnvelopeEmitsRendering ==
    [][\A t \in ValidTriples :
          (ProcessStep /\ cur.body = t.body /\ cfg.keyFile = "private") =>
              LET parts == SplitComma(cur.body)
                  msg   == B64Decode(parts[2]).bytes
              IN  /\ Take(msg, NONCE_SIZE) = t.n
                  /\ Drop(msg, NONCE_SIZE) = BoxEncrypt(t.k, t.n, t.p)
                  /\ CipherDecrypt(cfg.keyFile, B64Decode(parts[1]).bytes).key = t.k
                  /\ Sink' = Sink \o JoinSpace(SplitLines(MessageToJson(t.p))) \o << NL >>
                  /\ CountLines(Sink') = CountLines(Sink) + 1
                  /\ emitted' = Append(emitted, cur.id)
                  /\ pc' = "fetch"]_vars

C8_Witness ==
    /\ lastStep = "process"
    /\ pc = "fetch"
    /\ Len(emitted) = 2
    /\ outfile = PrintTo(PrintTo(<<>>, Render(P1)), Render(P2))

(***************************************************************************)
(* C9: a raw message is rejected, and no report comes of it, when the      *)
(* comma is absent, when there is more than one comma, when a segment is   *)
(* not valid base64, or when the decoded body is shorter than the nonce.   *)
(***************************************************************************)
ValidBase64(seg) ==
    /\ \A i \in 1..Len(seg) : seg[i] <= PAD
    /\ B64Decode(seg).ok
    /\ B64Encode(B64Decode(seg).bytes) = seg

MalformedEnvelope(body) ==
    LET parts == SplitComma(body)
    IN  \/ Len(parts) # 2
        \/ ~ValidBase64(parts[1])
        \/ ~ValidBase64(parts[2])
        \/ Len(B64Decode(parts[2]).bytes) < NONCE_SIZE

C9_MalformedEnvelopeRejected ==
    [][(ProcessStep /\ MalformedEnvelope(cur.body))
          => (pc' = "exited" /\ emitted' = emitted /\ outfile' = outfile)]_vars

(***************************************************************************)
(* C10: a poll fetches at most one message and does not wait for one; the  *)
(* loop sleeps after, and only after, a poll that found nothing, a sleep   *)
(* leads back to the poll, and after a poll that returned a message the    *)
(* next poll comes without a sleep.                                        *)
(***************************************************************************)
C10_SleepOnlyAfterEmptyPoll ==
    [][/\ Len(fetched') <= Len(fetched) + 1
       /\ (Len(fetched') > Len(fetched)) => FetchStep
       /\ SleepStep => (lastPoll = "empty" /\ pc' = "fetch" /\ now' = now + SleepTicks)
       /\ (FetchStep /\ lastPoll = "empty") => lastStep = "sleep"
       /\ (FetchStep /\ lastPoll = "msg") => lastStep = "process"]_vars

C10_Witness ==
    /\ lastStep = "fetch"
    /\ polls = 3
    /\ Len(fetched) = 2
    /\ Len(emitted) = 1
    /\ Len(notices) = 0
    /\ now = SleepTicks


(***************************************************************************)
(* C11: fetching a message resets the idle timer.  Whenever a message has  *)
(* been fetched, every 'Queue empty' notice printed at or after the latest *)
(* fetch comes at least a full threshold (180 s) after that fetch, however *)
(* long the queue had been idle before the message arrived; and the timer  *)
(* never points before the latest fetch once the message is processed.     *)
(***************************************************************************)
C11_FetchResetsIdleTimer ==
    (Len(fetched) > 0) =>
        /\ \A i \in 1..Len(notices) :
              (notices[i] >= lastFetch) => (notices[i] - lastFetch >= IdleThreshold)
        /\ (pc \in {"fetch", "idle", "sleep"}) => (last_empty >= lastFetch)

(* An empty poll, a message, then an empty poll 179.7 s after the message: *)
(* 359.7 s since the loop started, and no notice.                          *)
C11_Witness ==
    /\ pc = "sleep"
    /\ Len(fetched) = 1
    /\ lastFetch = 1800
    /\ now = 3597
    /\ notices = <<>>
    /\ last_empty = lastFetch

(***************************************************************************)
(* C12: a run whose configuration is invalid (a required option missing or *)
(* empty, the key file missing or not loadable, the output file            *)
(* unopenable) ends in main() with a non-zero exit status, before any      *)
(* broker connection: no channel, no queue declared, no poll, no message   *)
(* fetched.  A run that only asks for the version never reads the rest of  *)
(* its configuration and is not counted as invalid.                        *)
(***************************************************************************)
InvalidConfig(c) ==
    \/ c.args = "missing"
    \/ /\ ~c.version
       /\ \/ c.args = "emptyurl"
          \/ c.keyFile \in {"missing", "garbage"}
          \/ c.output = "unopenable"

PollerOrder ==
    /\ declared \in {0, 1}
    /\ (polls > 0) => (declared = 1 /\ chan # "none")
    /\ (pc \in LoopPcs) => (declared = 1 /\ chan = "open")
    /\ (pc \in {"main", "connect"}) => (declared = 0 /\ chan = "none" /\ polls = 0)
    /\ (cfg.broker # "reachable") =>
          /\ polls = 0 /\ declared = 0 /\ chan = "none" /\ fetched = <<>>
          /\ pc \in {"main", "connect", "exited"}
          /\ (failure = "connect") => (exitCode # 0 /\ raised # "none")

ConnectOnce ==
    /\ (pc' = "connect") => (pc \in {"main", "connect"})
    /\ (declared' # declared) => (pc = "connect" /\ declared = 0 /\ pc' = "fetch")
    /\ (pc = "connect" /\ cfg.broker # "reachable") => (pc' = "exited")

Contains(s, k) ==
    \E i \in 1..(Len(s) - Len(k) + 1) : SubSeq(s, i, i + Len(k) - 1) = k

KeyNeverWritten ==
    \A k \in SymKeys :
        ~Contains(outfile, k) /\ ~Contains(stdout, k) /\ ~Contains(stderr, k)

KeyNotRetained ==
    (pc \in {"fetch", "idle", "sleep"}) => (msgKey = <<>>)

C14_KeyNeitherWrittenNorRetained == KeyNeverWritten /\ KeyNotRetained

(***************************************************************************)
(* C15: at the two points where the loop blocks, the call of basic_get and *)
(* the idle sleep, no message is in hand: every message fetched so far has *)
(* had its report printed (a message that fails ends the loop, so none is  *)
(* dropped while the loop goes on).  A cancellation that arrives at either *)
(* point therefore ends the process with no message half processed.        *)
(***************************************************************************)
BlockingPcs == {"fetch", "idle", "sleep"}

NothingInHand == cur = NoMsg /\ emitted = fetched

CancelAtBlockingPoint ==
    (pc \in BlockingPcs /\ lastStep' = "cancel" /\ pc' = "exited") =>
        (cur' = NoMsg /\ emitted' = fetched' /\ Sink' = Sink)

C15_NothingInFlightWhenBlocked ==
    [](pc \in BlockingPcs => NothingInHand) /\ [][CancelAtBlockingPoint]_vars

(* Two messages fetched and printed, an empty poll, and the cancellation.  *)
C15_Witness ==
    /\ failure = "cancel"
    /\ lastStep = "cancel"
    /\ lastPoll = "empty"
    /\ cur = NoMsg
    /\ Len(fetched) = 2
    /\ emitted = fetched

(***************************************************************************)
(* C16: the idle timer influences nothing but the idle notices.  What a    *)
(* message does to the report lines and to the exit status is a function   *)
(* of the key and of the message body alone (the clock, the timer and the  *)
(* notices printed so far are no argument of it), and an empty poll, its   *)
(* notice and its sleep change neither the report lines, nor the messages  *)
(* on the queue, nor the exit status.  Two runs that fetch the same        *)
(* messages therefore print the same report lines and end alike, however   *)
(* many empty polls lie between the messages and however long they take.   *)
(***************************************************************************)
ReportsDependOnMessageOnly ==
    ProcessStep =>
        LET r == HandleBody(cfg.keyFile, cur.body)
        IN  IF r.kind = "emit"
            THEN /\ emitted' = Append(emitted, cur.id)
                 /\ (cfg.output = "file") => (outfile' = PrintTo(outfile, r.line))
                 /\ (cfg.output # "file") => (stdout' = PrintTo(stdout, r.line))
                 /\ pc' = "fetch" /\ exitCode' = exitCode /\ raised' = raised
            ELSE /\ emitted' = emitted /\ outfile' = outfile
                 /\ pc' = "exited" /\ exitCode' = r.code /\ raised' = r.exc

EmptyPollStep == FetchStep /\ lastPoll' = "empty"

IdleChangesNoReport ==
    (EmptyPollStep \/ IdleStep \/ SleepStep) =>
        /\ emitted' = emitted /\ outfile' = outfile
        /\ (cfg.output # "file") => (CountLines(stdout') = CountLines(stdout)
                                        + Len(notices') - Len(notices))
        /\ queue' = queue /\ cur' = cur /\ fetched' = fetched
        /\ pc' \in LoopPcs /\ exitCode' = exitCode /\ raised' = raised

C16_IdleStateOnlyDrivesNotices ==
    [][ReportsDependOnMessageOnly /\ IdleChangesNoReport]_vars

(* A report printed after an idle hour and its notice: the output file     *)
(* holds the report line and nothing else.                                 *)
C16_Witness ==
    /\ cfg.output = "file"
    /\ Len(notices) = 1
    /\ Len(emitted) = 1
    /\ lastStep = "process"
    /\ outfile = PrintTo(<<>>, Render(P1))

(***************************************************************************)
(* C17: when cipher.decrypt raises ValueError on the wrapped key of a      *)
(* fetched message the loop stops and returns 0, and when it raises        *)
(* TypeError the loop stops and returns -1.  Either way the message, which *)
(* has left the queue, gets no report line, and no other message is        *)
(* fetched afterwards.                                                     *)
(***************************************************************************)
UnwrapResult(keyKind, body) ==
    IF ~Utf8Ok(body) THEN "none"
    ELSE LET parts == SplitComma(body)
         IN  IF Len(parts) < 2 THEN "none"
             ELSE IF ~B64Decode(parts[1]).ok \/ ~B64Decode(parts[2]).ok THEN "none"
             ELSE CipherDecrypt(keyKind, B64Decode(parts[1]).bytes).res

UnwrapErrorStopsLoop ==
    (ProcessStep /\ UnwrapResult(cfg.keyFile, cur.body) \in {"ValueError", "TypeError"}) =>
        /\ pc' = "exited"
        /\ raised' = "none"
        /\ failure' = "unwrap"
        /\ exitCode' = (IF UnwrapResult(cfg.keyFile, cur.body) = "ValueError"
                        THEN 0 ELSE 0 - 1)
        /\ emitted' = emitted
        /\ outfile' = outfile
        /\ stdout' = PrintTo(stdout, SymKeyErrorText)
        /\ cur.id \notin Range(queue')

NoFetchAfterUnwrapError ==
    (failure = "unwrap") => (pc' = "exited" /\ fetched' = fetched /\ polls' = polls
                             /\ emitted' = emitted /\ queue' = queue)

C17_UnwrapErrorReturnCodes ==
    [][UnwrapErrorStopsLoop /\ NoFetchAfterUnwrapError]_vars

(* The key file holds a public key: cipher.decrypt raised TypeError and    *)
(* the process returned -1 with the message fetched and nothing printed    *)
(* for it.                                                                 *)
C17_Witness ==
    /\ cfg.keyFile = "public"
    /\ pc = "exited"
    /\ failure = "unwrap"
    /\ exitCode = 0 - 1
    /\ Len(fetched) = 1
    /\ emitted = <<>>

(***************************************************************************)
(* C18: on an empty poll the notice is printed if and only if the whole    *)
(* minutes of the time since the last reset exceed 2 or its whole hours    *)
(* exceed 0, which is to say if and only if at least 180 s have passed; an *)
(* elapsed time from 120 s up to 180 s prints nothing.  Printing moves the *)
(* reset time to the current time, and an empty poll that prints nothing   *)
(* leaves the reset time where it was.  Times are in tenths of a second.   *)
(***************************************************************************)
NoticePrinted == notices' = Append(notices, now)

NoticeRule ==
    IdleStep =>
        LET elapsed == now - last_empty
            hours   == elapsed \div 36000
            minutes == (elapsed % 36000) \div 600
        IN  /\ elapsed >= 0
            /\ NoticePrinted \/ notices' = notices
            /\ NoticePrinted <=> (minutes > 2 \/ hours > 0)
            /\ NoticePrinted <=> (elapsed >= 1800)
            /\ (elapsed >= 1200 /\ elapsed < 1800) => ~NoticePrinted
            /\ NoticePrinted => (last_empty' = now /\ CountLines(stdout') = CountLines(stdout) + 1)
            /\ ~NoticePrinted => (last_empty' = last_empty /\ stdout' = stdout)

C18_NoticeIffThreeMinutes == [][NoticeRule]_vars

(* An empty poll 179.7 s after the loop started printed nothing and kept   *)
(* the reset time; the next one, at 180.0 s, printed the notice and moved  *)
(* it.                                                                     *)
C18_Witness ==
    /\ lastStep = "idle"
    /\ polls = 2
    /\ notices = << 1800 >>
    /\ last_empty = 1800
    /\ now = 1800

(***************************************************************************)
(* C19: progress.  While the broker keeps the channel open and no stage    *)
(* fails, the loop neither stops nor stalls: every message on the queue is *)
(* eventually fetched and its report line eventually printed, unless a     *)
(* stage failed and ended the process first.  The loop ends only with a    *)
(* failed stage, and report lines are printed in the order in which their  *)
(* messages were fetched, each appended after the lines already there.     *)
(***************************************************************************)
EmittedInFetchOrder ==
    /\ Len(emitted) <= Len(fetched)
    /\ \A i \in 1..Len(emitted) : emitted[i] = fetched[i]
    /\ CountLines(outfile) = (IF ToStdout THEN 0 ELSE Len(emitted))

StopsOnlyOnFailedStage == (pc = "exited") => (failure \in Stages)

ReportAppended ==
    (ProcessStep /\ emitted' # emitted) =>
        /\ emitted' = Append(emitted, cur.id)
        /\ cur.id = fetched[Len(fetched)]
        /\ \E line \in {Render(P1), Render(P2)} :
              IF ToStdout THEN stdout' = stdout \o line \o << NL >>
              ELSE outfile' = outfile \o line \o << NL >>

EventuallyEmitted ==
    \A id \in 1..MaxMsgs :
        (id \in Range(queue)) ~> (id \in Range(emitted) \/ pc = "exited")

C19_Progress ==
    /\ [](EmittedInFetchOrder /\ StopsOnlyOnFailedStage)
    /\ [][ReportAppended]_vars
    /\ EventuallyEmitted

(* Three empty polls, then two messages published, fetched and printed in  *)
(* that order.                                                             *)
C19_Witness ==
    /\ pc = "fetch"
    /\ polls = MaxPolls + 2
    /\ fetched = << 1, 2 >>
    /\ emitted = << 1, 2 >>
    /\ queue = <<>>
    /\ CountLines(Sink) >= 2

=============================================================================
